---- MODULE Spec2Model ----
(***************************************************************************)
(* The health-check registry of go-sundheit (src/health.go): the two maps  *)
(* guarded by one sync.RWMutex, the API calls made by client goroutines,   *)
(* and one goroutine per registered check.                                 *)
(*                                                                         *)
(* Granularity.  A step is one action that another goroutine can observe:  *)
(* a critical section of the lock (nothing blocks inside one, so it is     *)
(* taken in one step), a channel send or receive, a timer firing, the end  *)
(* of a check's execution.  The code that runs between two such points is  *)
(* local to its goroutine and belongs to the step before it; a goroutine   *)
(* that is about to call Lock() is therefore already a pending writer     *)
(* (but for RegisterCheck while its OnCheckRegistered listener runs).      *)
(* sync.RWMutex: a blocked Lock() excludes new readers, Lock() waits for   *)
(* the readers that hold the lock.  The only goroutine that keeps the lock *)
(* from one step to the next is a Deregister/DeregisterAll caller, which   *)
(* sends on stopChan while holding the read lock.                          *)
(***************************************************************************)
EXTENDS Naturals, Integers, Sequences, FiniteSets, TLC

\* ------------------------------------------------------------------ bounds
\* Client goroutines that call the API concurrently.
NumCallers == 2
\* Check goroutines ever started (successful RegisterCheck calls).
MaxTasks == 2
\* Timer firings (each one advances the clock).
MaxTicks == 2

Callers == 1..NumCallers
TaskIds == 1..MaxTasks
\* Names of the checks the clients register.
Names == {"a", "b"}
\* The configurations handed to RegisterCheck: Check nil (check = FALSE), a
\* Check whose Name() is "", and well-formed ones.
Configs ==
    [check : {FALSE}, name : {""}, InitiallyPassing : {FALSE}]
    \cup [check : {TRUE}, name : Names \cup {""}, InitiallyPassing : BOOLEAN]
\* What one execution of a check can do.
Outcomes == {"pass", "fail", "fault", "hang"}

VARIABLES
    results,     \* h.results: name -> Result (a map: its domain is its key set)
    checkTasks,  \* h.checkTasks: name -> checkTask value (a copy of the task)
    rlock,       \* h.lock: the goroutines holding the read lock between steps
    tasks,       \* the check goroutines: task id -> its local state; lock is
                 \* the hold on h.lock the goroutine has between two steps
    callers,     \* the client goroutines: caller -> its position in an API call
    nTasks,      \* check goroutines started so far
    now,         \* the clock: time.Now(); a timer firing advances it
    hooks,       \* listener hooks invoked by the last step, in order
    returned,    \* the API call that returned in the last step, with its value
    history,     \* per key of results: the Results stored since the key was added
    deregistered \* names whose stop cleanup ran while no RegisterCheck of the
                 \* name was in progress, and none was called since

vars == <<results, checkTasks, rlock, tasks, callers, nTasks, now, hooks,
          returned, history, deregistered>>

\* ------------------------------------------------------------------- values
NoTask == 0
NoReturn == [op |-> "none", name |-> "", ret |-> "none"]
NoHooks == << >>

\* A Result; Error is TRUE for a non-nil error, TimeOfFirstFailure 0 for nil.
\* Details and Duration are opaque payload and are left out.
Result(err, t, cf, tff) ==
    [Error |-> err, Timestamp |-> t, ContiguousFailures |-> cf,
     TimeOfFirstFailure |-> tff]

\* Result.IsHealthy
IsHealthyResult(r) == ~r.Error

IdleCaller ==
    [pc |-> "idle", cfg |-> [check |-> FALSE, name |-> "", InitiallyPassing |-> FALSE],
     t |-> 0, todo |-> {}, target |-> NoTask, op |-> "none"]

NoTaskRec ==
    [pc |-> "none", name |-> "", stopChan |-> 0, timerChan |-> 0,
     ticker |-> "nil", outcome |-> "none", checkTime |-> 0, lock |-> "none"]

Return(op, name, ret) == [op |-> op, name |-> name, ret |-> ret]
Hook(hook, name, arg) == [hook |-> hook, name |-> name, arg |-> arg]

\* Go map operations.
Put(m, k, v) == [x \in DOMAIN m \cup {k} |-> IF x = k THEN v ELSE m[x]]
Delete(m, k) == [x \in DOMAIN m \ {k} |-> m[x]]
EmptyMap == [x \in {} |-> 0]

\* --------------------------------------------------------------------- lock
\* Goroutines inside a Lock() call that has not returned.
PendingWriter ==
    \/ \E t \in TaskIds : tasks[t].pc \in {"update", "stopping"}
    \/ \E c \in Callers : callers[c].pc \in {"regUpdate", "regCreate"}
\* RLock() returns only while no Lock() call is pending and no writer holds
\* the lock.
CanRLock == ~PendingWriter /\ \A t \in TaskIds : tasks[t].lock # "W"
\* A Lock() that does not wait for the holders of the lock.
CanLock_NoWait == TRUE
\* Lock() returns only when no goroutine holds the lock.
CanLock == rlock = {} /\ \A t \in TaskIds : tasks[t].lock = "none"

\* ------------------------------------------------------------------- Init
Init ==
    /\ results = EmptyMap
    /\ checkTasks = EmptyMap
    /\ rlock = {}
    /\ tasks = [t \in TaskIds |-> NoTaskRec]
    /\ callers = [c \in Callers |-> IdleCaller]
    /\ nTasks = 0
    /\ now = 1
    /\ hooks = NoHooks
    /\ returned = NoReturn
    /\ history = EmptyMap
    /\ deregistered = {}

\* ------------------------------------------------------------ updateResult
\* updateResult with the onset of the streak taken from the latest failure
\* instead of the previous Result.
NewResult_OnsetIsLatest(ok, prevResult, err, t) ==
    IF ~err THEN Result(FALSE, t, 0, 0)
    ELSE IF ok
         THEN Result(TRUE, t, prevResult.ContiguousFailures + 1, t)
         ELSE Result(TRUE, t, 1, t)

\* updateResult with the count of failures carried over to a passing Result.
NewResult_CountKept(ok, prevResult, err, t) ==
    IF ~err THEN Result(FALSE, t, IF ok THEN prevResult.ContiguousFailures ELSE 0, 0)
    ELSE IF ok
         THEN Result(TRUE, t, prevResult.ContiguousFailures + 1,
                     IF IsHealthyResult(prevResult) THEN t
                     ELSE prevResult.TimeOfFirstFailure)
         ELSE Result(TRUE, t, 1, t)

\* The Result updateResult builds from the previous entry (ok: it exists).
NewResult(ok, prevResult, err, t) ==
    IF ~err THEN Result(FALSE, t, 0, 0)
    ELSE IF ok
         THEN Result(TRUE, t, prevResult.ContiguousFailures + 1,
                     IF IsHealthyResult(prevResult) THEN t
                     ELSE prevResult.TimeOfFirstFailure)
         ELSE Result(TRUE, t, 1, t)

\* updateResult's value for name: the Result it stores and returns.
updateResult(name, err, t) ==
    NewResult(name \in DOMAIN results,
              IF name \in DOMAIN results THEN results[name] ELSE Result(FALSE, 0, 0, 0),
              err, t)

\* The store of updateResult, with the record of what was stored under name.
\* initial: the Result is the initial one of a registration, not an execution's.
StoreResult(name, err, t, initial) ==
    /\ results' = Put(results, name, updateResult(name, err, t))
    /\ history' = Put(history, name,
                      Append(IF name \in DOMAIN history THEN history[name] ELSE << >>,
                             [Error |-> err, Timestamp |-> t, initial |-> initial]))

\* ----------------------------------------------------------- RegisterCheck
\* The validation without the test of the name.
misconfigured_NilOnly(cfg) == ~cfg.check

\* RegisterCheck's validation: Check nil or Name() empty.
misconfigured(cfg) == ~cfg.check \/ cfg.name = ""

\* initialErr: non-nil unless the check is configured as initially passing.
initialErr(cfg) == ~cfg.InitiallyPassing

\* The client goroutines are interchangeable while they are idle: the next
\* call is made by the first idle one.
CanCall(c) ==
    /\ callers[c].pc = "idle"
    /\ \A d \in Callers : d < c => callers[d].pc # "idle"

\* The callers inside a RegisterCheck call.
Registering ==
    {c \in Callers : callers[c].pc \in {"regUpdate", "regListener", "regCreate"}}

\* RegisterCheck is called: a misconfigured check returns an error at once;
\* otherwise time.Now() is read and updateResult is entered (Lock pending).
RegisterCheck(c, cfg) ==
    /\ CanCall(c)
    /\ hooks' = NoHooks
    /\ IF misconfigured(cfg)
       THEN /\ returned' = Return("RegisterCheck", cfg.name, "error")
            /\ UNCHANGED <<results, checkTasks, rlock, tasks, callers, nTasks,
                           now, history, deregistered>>
       ELSE /\ nTasks + Cardinality(Registering) < MaxTasks
            /\ callers' = [callers EXCEPT ![c] =
                   [IdleCaller EXCEPT !.pc = "regUpdate", !.cfg = cfg,
                                      !.t = now, !.op = "RegisterCheck"]]
            /\ returned' = NoReturn
            /\ deregistered' = deregistered \ {cfg.name}
            /\ UNCHANGED <<results, checkTasks, rlock, tasks, nTasks, now, history>>

\* RegisterCheck, line 64-65: updateResult stores the initial Result and
\* releases the lock, then the listener's OnCheckRegistered is invoked.
RegisterUpdateResult(c) ==
    /\ callers[c].pc = "regUpdate"
    /\ CanLock
    /\ StoreResult(callers[c].cfg.name, initialErr(callers[c].cfg), callers[c].t, TRUE)
    /\ hooks' = <<Hook("OnCheckRegistered", callers[c].cfg.name,
                       updateResult(callers[c].cfg.name, initialErr(callers[c].cfg),
                                    callers[c].t))>>
    /\ callers' = [callers EXCEPT ![c].pc = "regListener"]
    /\ returned' = NoReturn
    /\ UNCHANGED <<checkTasks, rlock, tasks, nTasks, now, deregistered>>

\* RegisterCheck, line 65-66: OnCheckRegistered returns and createCheckTask
\* is entered (Lock pending).  While the listener runs the caller holds no
\* lock and is no pending writer.
RegisterListenerReturns(c) ==
    /\ callers[c].pc = "regListener"
    /\ callers' = [callers EXCEPT ![c].pc = "regCreate"]
    /\ hooks' = NoHooks
    /\ returned' = NoReturn
    /\ UNCHANGED <<results, checkTasks, rlock, tasks, nTasks, now, history,
                   deregistered>>

\* The goroutine scheduleCheck starts: it waits in the first select, on
\* time.After(cfg.InitialDelay) and on its stopChan.
NewTask(cfg) == [NoTaskRec EXCEPT !.pc = "select", !.name = cfg.name]

\* createCheckTask with a stop request sent to the task it replaces.
RegisterCreateTask_StopsReplaced(c) ==
    /\ callers[c].pc = "regCreate"
    /\ CanLock
    /\ checkTasks' = Put(checkTasks, callers[c].cfg.name,
                         [stopChan |-> nTasks + 1, ticker |-> "nil"])
    /\ tasks' = IF callers[c].cfg.name \in DOMAIN checkTasks
                THEN [tasks EXCEPT ![nTasks + 1] = NewTask(callers[c].cfg),
                                   ![checkTasks[callers[c].cfg.name].stopChan].stopChan = 1]
                ELSE [tasks EXCEPT ![nTasks + 1] = NewTask(callers[c].cfg)]
    /\ nTasks' = nTasks + 1
    /\ callers' = [callers EXCEPT ![c] = IdleCaller]
    /\ returned' = Return("RegisterCheck", callers[c].cfg.name, "nil")
    /\ hooks' = NoHooks
    /\ UNCHANGED <<results, rlock, now, history, deregistered>>

\* RegisterCheck, line 66: createCheckTask puts a copy of the new task (its
\* stopChan, no ticker yet) in the map, scheduleCheck starts the goroutine.
RegisterCreateTask(c) ==
    /\ callers[c].pc = "regCreate"
    /\ CanLock
    /\ checkTasks' = Put(checkTasks, callers[c].cfg.name,
                         [stopChan |-> nTasks + 1, ticker |-> "nil"])
    /\ tasks' = [tasks EXCEPT ![nTasks + 1] = NewTask(callers[c].cfg)]
    /\ nTasks' = nTasks + 1
    /\ callers' = [callers EXCEPT ![c] = IdleCaller]
    /\ returned' = Return("RegisterCheck", callers[c].cfg.name, "nil")
    /\ hooks' = NoHooks
    /\ UNCHANGED <<results, rlock, now, history, deregistered>>

\* --------------------------------------------------- Deregister, DeregisterAll
\* A send that also takes the goroutine out of its loop.
Send_EndsTheLoop(t) == tasks' = [tasks EXCEPT ![t].stopChan = 1, ![t].pc = "stopping"]

\* task.stopChan <- true on a channel with room.
Send(t) == tasks' = [tasks EXCEPT ![t].stopChan = 1]

\* Deregister: under the read lock, look the task up and send the stop; a
\* full stopChan blocks the caller, which keeps the read lock.
Deregister(c, name) ==
    /\ CanCall(c)
    /\ CanRLock
    /\ hooks' = NoHooks
    /\ UNCHANGED <<results, checkTasks, nTasks, now, history, deregistered>>
    /\ IF name \notin DOMAIN checkTasks
       THEN /\ returned' = Return("Deregister", name, "none")
            /\ UNCHANGED <<rlock, tasks, callers>>
       ELSE LET ch == checkTasks[name].stopChan IN
            IF tasks[ch].stopChan = 0
            THEN /\ Send(ch)
                 /\ returned' = Return("Deregister", name, "none")
                 /\ UNCHANGED <<rlock, callers>>
            ELSE /\ rlock' = rlock \cup {c}
                 /\ callers' = [callers EXCEPT ![c] =
                        [IdleCaller EXCEPT !.pc = "send", !.target = ch,
                                           !.op = "Deregister"]]
                 /\ returned' = NoReturn
                 /\ UNCHANGED tasks

\* DeregisterAll takes the read lock and starts ranging over checkTasks.
DeregisterAll(c) ==
    /\ CanCall(c)
    /\ CanRLock
    /\ rlock' = rlock \cup {c}
    /\ callers' = [callers EXCEPT ![c] =
           [IdleCaller EXCEPT !.pc = "range", !.op = "DeregisterAll",
                !.todo = {checkTasks[n].stopChan : n \in DOMAIN checkTasks}]]
    /\ hooks' = NoHooks
    /\ returned' = NoReturn
    /\ UNCHANGED <<results, checkTasks, tasks, nTasks, now, history, deregistered>>

\* DeregisterAll's range with the read lock kept when the call returns.
DeregisterAllNext_LockKept(c) ==
    /\ callers[c].pc = "range"
    /\ hooks' = NoHooks
    /\ UNCHANGED <<results, checkTasks, nTasks, now, history, deregistered>>
    /\ IF callers[c].todo = {}
       THEN /\ callers' = [callers EXCEPT ![c] = IdleCaller]
            /\ returned' = Return("DeregisterAll", "", "none")
            /\ UNCHANGED <<rlock, tasks>>
       ELSE \E t \in callers[c].todo :
            /\ returned' = NoReturn
            /\ UNCHANGED rlock
            /\ IF tasks[t].stopChan = 0
               THEN /\ Send(t)
                    /\ callers' = [callers EXCEPT ![c].todo = @ \ {t}]
               ELSE /\ callers' = [callers EXCEPT ![c].todo = @ \ {t},
                                                  ![c].pc = "send",
                                                  ![c].target = t]
                    /\ UNCHANGED tasks

\* One iteration of DeregisterAll's range (Go ranges over a map in any
\* order): send the stop, or block on a full stopChan; after the last entry
\* the read lock is released and the call returns.
DeregisterAllNext(c) ==
    /\ callers[c].pc = "range"
    /\ hooks' = NoHooks
    /\ UNCHANGED <<results, checkTasks, nTasks, now, history, deregistered>>
    /\ IF callers[c].todo = {}
       THEN /\ rlock' = rlock \ {c}
            /\ callers' = [callers EXCEPT ![c] = IdleCaller]
            /\ returned' = Return("DeregisterAll", "", "none")
            /\ UNCHANGED tasks
       ELSE \E t \in callers[c].todo :
            /\ returned' = NoReturn
            /\ UNCHANGED rlock
            /\ IF tasks[t].stopChan = 0
               THEN /\ Send(t)
                    /\ callers' = [callers EXCEPT ![c].todo = @ \ {t}]
               ELSE /\ callers' = [callers EXCEPT ![c].todo = @ \ {t},
                                                  ![c].pc = "send",
                                                  ![c].target = t]
                    /\ UNCHANGED tasks

\* A caller blocked on a full stopChan sends once the task has drained it;
\* Deregister then returns, DeregisterAll goes on ranging.
SendBlocked(c) ==
    /\ callers[c].pc = "send"
    /\ tasks[callers[c].target].stopChan = 0
    /\ Send(callers[c].target)
    /\ hooks' = NoHooks
    /\ UNCHANGED <<results, checkTasks, nTasks, now, history, deregistered>>
    /\ IF callers[c].op = "Deregister"
       THEN /\ rlock' = rlock \ {c}
            /\ callers' = [callers EXCEPT ![c] = IdleCaller]
            /\ returned' = Return("Deregister", "", "none")
       ELSE /\ callers' = [callers EXCEPT ![c].pc = "range", ![c].target = NoTask]
            /\ returned' = NoReturn
            /\ UNCHANGED rlock

\* -------------------------------------------------------- Results, IsHealthy
RECURSIVE HealthyLoop(_, _, _)
\* The loop of Results over the entries left in keys: healthy && v.IsHealthy().
HealthyLoop(m, keys, healthy) ==
    IF keys = {} THEN healthy
    ELSE LET k == CHOOSE x \in keys : TRUE IN
         HealthyLoop(m, keys \ {k}, healthy /\ IsHealthyResult(m[k]))

RECURSIVE HealthyLoop_Overwrite(_, _, _)
\* The loop with healthy = v.IsHealthy(): the entry visited last decides.
HealthyLoop_Overwrite(m, keys, healthy) ==
    IF keys = {} THEN healthy
    ELSE LET k == CHOOSE x \in keys : TRUE IN
         HealthyLoop_Overwrite(m, keys \ {k}, IsHealthyResult(m[k]))

ResultsHealthy_Overwrite(m) == HealthyLoop_Overwrite(m, DOMAIN m, TRUE)

\* The healthy flag Results computes, starting from true.
ResultsHealthy(m) == HealthyLoop(m, DOMAIN m, TRUE)

\* allHealthy: no entry of the map is failing.
allHealthy(m) == \A k \in DOMAIN m : IsHealthyResult(m[k])

\* Results: a copy of the map and its aggregate, taken under the read lock.
Results(c) ==
    /\ CanCall(c)
    /\ CanRLock
    /\ returned' = Return("Results", "",
                          [results |-> results, healthy |-> ResultsHealthy(results)])
    /\ hooks' = NoHooks
    /\ UNCHANGED <<results, checkTasks, rlock, tasks, callers, nTasks, now, history,
                   deregistered>>

\* IsHealthy: the aggregate alone, under the read lock.
IsHealthy(c) ==
    /\ CanCall(c)
    /\ CanRLock
    /\ returned' = Return("IsHealthy", "", allHealthy(results))
    /\ hooks' = NoHooks
    /\ UNCHANGED <<results, checkTasks, rlock, tasks, callers, nTasks, now, history,
                   deregistered>>

\* ------------------------------------------------------ the check goroutines
\* A timer delivers the time on its channel: time.After(InitialDelay) once,
\* while the goroutine waits in its first select; the ticker whenever its
\* one-slot channel is empty (a tick on a full channel is dropped).  Only a
\* tick the goroutine can still receive is modelled.
TimerFire(t) ==
    /\ tasks[t].pc \in {"select", "execute", "update", "report"}
    /\ tasks[t].timerChan = 0
    /\ \/ tasks[t].ticker = "nil" /\ tasks[t].pc = "select"
       \/ tasks[t].ticker = "running"
    /\ now <= MaxTicks
    /\ now' = now + 1
    /\ tasks' = [tasks EXCEPT ![t].timerChan = now + 1]
    /\ hooks' = NoHooks
    /\ returned' = NoReturn
    /\ UNCHANGED <<results, checkTasks, rlock, callers, nTasks, history, deregistered>>

\* The cases of runCheckOrStop's select that can proceed; Go takes any one
\* of them when several can.
ReadyCases(task) ==
    (IF task.stopChan = 1 THEN {"stop"} ELSE {})
    \cup (IF task.timerChan # 0 THEN {"timer"} ELSE {})

\* runCheckOrStop, case <-task.stopChan: the stop is received and
\* stopCheckTask is entered (Lock pending).
SelectStop(t) ==
    /\ tasks[t].pc = "select"
    /\ "stop" \in ReadyCases(tasks[t])
    /\ tasks' = [tasks EXCEPT ![t].stopChan = 0, ![t].pc = "stopping"]
    /\ hooks' = NoHooks
    /\ returned' = NoReturn
    /\ UNCHANGED <<results, checkTasks, rlock, callers, nTasks, now, history,
                   deregistered>>

\* checkAndUpdateResult without the notification of OnCheckStarted.
SelectTimer_NotNotified(t) ==
    /\ tasks[t].pc = "select"
    /\ tasks[t].timerChan # 0
    /\ tasks' = [tasks EXCEPT ![t].checkTime = tasks[t].timerChan,
                              ![t].timerChan = 0, ![t].pc = "execute"]
    /\ hooks' = NoHooks
    /\ returned' = NoReturn
    /\ UNCHANGED <<results, checkTasks, rlock, callers, nTasks, now, history,
                   deregistered>>

\* runCheckOrStop, case t := <-timerChan: checkAndUpdateResult notifies
\* OnCheckStarted and calls task.execute().
SelectTimer(t) ==
    /\ tasks[t].pc = "select"
    /\ "timer" \in ReadyCases(tasks[t])
    /\ tasks' = [tasks EXCEPT ![t].checkTime = tasks[t].timerChan,
                              ![t].timerChan = 0, ![t].pc = "execute"]
    /\ hooks' = <<Hook("OnCheckStarted", tasks[t].name, "none")>>
    /\ returned' = NoReturn
    /\ UNCHANGED <<results, checkTasks, rlock, callers, nTasks, now, history,
                   deregistered>>

\* The error task.execute() returns for an outcome of the check: nil when
\* it passes; a fault of the check is contained and becomes an error.
executeErr(outcome) == outcome # "pass"

\* task.execute() ends with an outcome, and updateResult is entered (Lock
\* pending); or the check hangs and execute never returns.
Execute(t, outcome) ==
    /\ tasks[t].pc = "execute"
    /\ tasks' = [tasks EXCEPT ![t].pc = IF outcome = "hang" THEN "hung" ELSE "update",
                              ![t].outcome = outcome]
    /\ hooks' = NoHooks
    /\ returned' = NoReturn
    /\ UNCHANGED <<results, checkTasks, rlock, callers, nTasks, now, history,
                   deregistered>>

\* checkAndUpdateResult when a fault of the check unwinds the goroutine:
\* nothing is stored and the loop is over.
UpdateResult_FaultEndsLoop(t) ==
    /\ tasks[t].pc = "update"
    /\ CanLock
    /\ IF tasks[t].outcome = "fault"
       THEN /\ tasks' = [tasks EXCEPT ![t].pc = "stopped"]
            /\ hooks' = NoHooks
            /\ UNCHANGED <<results, history>>
       ELSE /\ StoreResult(tasks[t].name, executeErr(tasks[t].outcome),
                           tasks[t].checkTime, FALSE)
            /\ hooks' = <<Hook("OnCheckCompleted", tasks[t].name,
                               updateResult(tasks[t].name,
                                            executeErr(tasks[t].outcome),
                                            tasks[t].checkTime))>>
            /\ tasks' = [tasks EXCEPT ![t].pc = "report", ![t].checkTime = 0,
                                      ![t].lock = "none"]
    /\ returned' = NoReturn
    /\ UNCHANGED <<checkTasks, rlock, callers, nTasks, now, deregistered>>

\* checkAndUpdateResult, line 134-135: updateResult stores the Result of the
\* execution under the lock and releases it (deferred Unlock) as it returns;
\* OnCheckCompleted is notified then; reportResults is entered next.
UpdateResult(t) ==
    /\ tasks[t].pc = "update"
    /\ CanLock
    /\ StoreResult(tasks[t].name, executeErr(tasks[t].outcome), tasks[t].checkTime,
                   FALSE)
    /\ hooks' = <<Hook("OnCheckCompleted", tasks[t].name,
                       updateResult(tasks[t].name, executeErr(tasks[t].outcome),
                                    tasks[t].checkTime))>>
    /\ tasks' = [tasks EXCEPT ![t].pc = "report", ![t].checkTime = 0,
                              ![t].lock = "none"]
    /\ returned' = NoReturn
    /\ UNCHANGED <<checkTasks, rlock, callers, nTasks, now, deregistered>>

\* reportResults with the listener invoked before RUnlock.
ReportResults_ListenerUnderRLock(t) ==
    /\ tasks[t].pc = "report"
    /\ CanRLock
    /\ hooks' = <<Hook("OnResultsUpdated", "", results)>>
    /\ tasks' = [tasks EXCEPT ![t].pc = "select", ![t].outcome = "none",
                              ![t].ticker = IF @ = "nil" THEN "running" ELSE @,
                              ![t].lock = "R"]
    /\ returned' = NoReturn
    /\ UNCHANGED <<results, checkTasks, rlock, callers, nTasks, now, history,
                   deregistered>>

\* reportResults: a copy of the map is taken under the read lock, the lock
\* is released (RUnlock) and the copy goes to OnResultsUpdated; after the
\* first execution the ticker is created; the goroutine then waits in the
\* select again.
ReportResults(t) ==
    /\ tasks[t].pc = "report"
    /\ CanRLock
    /\ hooks' = <<Hook("OnResultsUpdated", "", results)>>
    /\ tasks' = [tasks EXCEPT ![t].pc = "select", ![t].outcome = "none",
                              ![t].ticker = IF @ = "nil" THEN "running" ELSE @,
                              ![t].lock = "none"]
    /\ returned' = NoReturn
    /\ UNCHANGED <<results, checkTasks, rlock, callers, nTasks, now, history,
                   deregistered>>

\* checkTask.stop() on the value read from the map: it stops the ticker that
\* value holds, if it holds one.  The goroutine's ticker changes only if the
\* map's value refers to it.
stop(mapTask, ticker) == IF mapTask.ticker # "nil" THEN "stopped" ELSE ticker

\* stopCheckTask without the deletion from results.
stopCheckTask_ResultKept(t) ==
    /\ tasks[t].pc = "stopping"
    /\ CanLock
    /\ tasks' = [tasks EXCEPT ![t].pc = "stopped"]
    /\ checkTasks' = Delete(checkTasks, tasks[t].name)
    /\ deregistered' =
           IF \E c \in Registering : callers[c].cfg.name = tasks[t].name
           THEN deregistered ELSE deregistered \cup {tasks[t].name}
    /\ hooks' = NoHooks
    /\ returned' = NoReturn
    /\ UNCHANGED <<results, history, rlock, callers, nTasks, now>>

\* stopCheckTask: under the lock, stop() the task value found under the name
\* (the zero value when there is none) and delete the name from both maps;
\* the goroutine returns.
stopCheckTask(t) ==
    /\ tasks[t].pc = "stopping"
    /\ CanLock
    /\ LET name == tasks[t].name
           task == IF name \in DOMAIN checkTasks THEN checkTasks[name]
                   ELSE [stopChan |-> NoTask, ticker |-> "nil"]
       IN /\ tasks' = [tasks EXCEPT ![t].pc = "stopped",
                                    ![t].ticker = stop(task, @),
                                    ![t].lock = "none"]
          /\ results' = Delete(results, name)
          /\ checkTasks' = Delete(checkTasks, name)
          /\ history' = Delete(history, name)
          /\ deregistered' =
                 IF \E c \in Registering : callers[c].cfg.name = name
                 THEN deregistered ELSE deregistered \cup {name}
    /\ hooks' = NoHooks
    /\ returned' = NoReturn
    /\ UNCHANGED <<rlock, callers, nTasks, now>>

\* --------------------------------------------------------------------- Next
CallerNext(c) ==
    \/ \E cfg \in Configs : RegisterCheck(c, cfg)
    \/ RegisterUpdateResult(c)
    \/ RegisterListenerReturns(c)
    \/ RegisterCreateTask(c)
    \/ \E name \in Names : Deregister(c, name)
    \/ DeregisterAll(c)
    \/ DeregisterAllNext(c)
    \/ SendBlocked(c)
    \/ Results(c)
    \/ IsHealthy(c)

TaskNext(t) ==
    \/ TimerFire(t)
    \/ SelectStop(t)
    \/ SelectTimer(t)
    \/ \E outcome \in Outcomes : Execute(t, outcome)
    \/ UpdateResult(t)
    \/ ReportResults(t)
    \/ stopCheckTask(t)

Next ==
    \/ \E c \in Callers : CallerNext(c)
    \/ \E t \in TaskIds : TaskNext(t)

Spec == Init /\ [][Next]_vars

\* The steps a caller takes inside a call it has made.
CallerContinue(c) ==
    \/ RegisterUpdateResult(c)
    \/ RegisterListenerReturns(c)
    \/ RegisterCreateTask(c)
    \/ DeregisterAllNext(c)
    \/ SendBlocked(c)

\* The Go scheduler runs every goroutine that can run: a check goroutine or
\* a caller inside a call that can take a step eventually takes one.  No
\* client is obliged to make a call.
FairSpec ==
    /\ Spec
    /\ \A t \in TaskIds : WF_vars(TaskNext(t))
    /\ \A c \in Callers : WF_vars(CallerContinue(c))

\* ---------------------------------------------------------- orderly clients
\* The names RegisterCheck was called for with a well-formed check.
Registered ==
    {tasks[t].name : t \in {u \in TaskIds : tasks[u].pc # "none"}}
    \cup {callers[c].cfg.name : c \in Registering}

\* A stop request was sent to the goroutine, or a DeregisterAll in progress
\* is about to send one.
Addressed(t) ==
    \/ tasks[t].stopChan = 1
    \/ tasks[t].pc \in {"stopping", "stopped"}
    \/ \E c \in Callers : t \in callers[c].todo

\* No stop request was sent for the check the name is mapped to.
Unaddressed(name) ==
    name \in DOMAIN checkTasks => ~Addressed(checkTasks[name].stopChan)

\* The calls of clients that register every name once and address every
\* name by one Deregister or DeregisterAll call.
OrderlyCaller(c) ==
    \/ \E cfg \in Configs : cfg.name \notin Registered /\ RegisterCheck(c, cfg)
    \/ RegisterUpdateResult(c)
    \/ RegisterListenerReturns(c)
    \/ RegisterCreateTask(c)
    \/ \E name \in Names : Unaddressed(name) /\ Deregister(c, name)
    \/ (\A name \in Names : Unaddressed(name)) /\ DeregisterAll(c)
    \/ DeregisterAllNext(c)
    \/ Results(c)
    \/ IsHealthy(c)

\* The steps of a check goroutine whose executions terminate.
OrderlyTask(t) ==
    \/ TimerFire(t)
    \/ SelectStop(t)
    \/ SelectTimer(t)
    \/ \E outcome \in Outcomes \ {"hang"} : Execute(t, outcome)
    \/ UpdateResult(t)
    \/ ReportResults(t)
    \/ stopCheckTask(t)

OrderlyNext ==
    \/ \E c \in Callers : OrderlyCaller(c)
    \/ \E t \in TaskIds : OrderlyTask(t)

\* The registry used by orderly clients, under the scheduling of FairSpec.
OrderlySpec ==
    /\ Init /\ [][OrderlyNext]_vars
    /\ \A t \in TaskIds : WF_vars(OrderlyTask(t))
    /\ \A c \in Callers : WF_vars(CallerContinue(c))

\* ------------------------------------------------------------------ helpers
\* The created goroutines of the checks registered under a name.
TasksOf(name) == {t \in TaskIds : tasks[t].pc # "none" /\ tasks[t].name = name}

\* A goroutine whose first execution has not completed.
FirstRound(t) ==
    /\ tasks[t].ticker = "nil"
    /\ tasks[t].pc \in {"select", "execute", "hung", "update"}

\* Hooks of the last step that report an execution of the check name.
ExecutionHooks(name) ==
    {i \in 1..Len(hooks) : /\ hooks[i].name = name
                           /\ hooks[i].hook \in {"OnCheckStarted", "OnCheckCompleted"}}

RECURSIVE FailingSuffix(_)
\* The maximal suffix of failing entries of a sequence of stored Results.
FailingSuffix(h) ==
    IF h = << >> \/ ~h[Len(h)].Error THEN << >>
    ELSE Append(FailingSuffix(SubSeq(h, 1, Len(h) - 1)), h[Len(h)])

IsExecution(e) == ~e.initial
IsInitial(e) == e.initial

\* ---------------------------------------------------------------------- C1
\* C1: once the cleanup of a Deregister(name) has run, and as long as
\* RegisterCheck(name) is neither in progress at the cleanup nor called
\* after it, results does not contain name and neither OnCheckStarted nor
\* OnCheckCompleted is notified for name.
C1_DeregisteredStaysRemoved ==
    \A n \in deregistered : n \notin DOMAIN results /\ ExecutionHooks(n) = {}

\* ---------------------------------------------------------------------- C2
\* C2: a goroutine that waits in its select with a stop request pending in
\* its stopChan does not start another execution, its timer having fired or
\* not.
C2_PendingStopWins ==
    [][\A t \in TaskIds :
          (tasks[t].pc = "select" /\ tasks[t].stopChan = 1)
              => tasks'[t].pc # "execute"]_vars

\* ---------------------------------------------------------------------- C3
\* C3: IsHealthy() returns true exactly when every stored Result has a nil
\* error, and the healthy flag of Results() is the conjunction of IsHealthy
\* over exactly the entries of the map it returns, which is the stored map.
C3_AggregateIsConjunction ==
    /\ returned.op = "IsHealthy"
          => returned.ret = (\A k \in DOMAIN results : ~results[k].Error)
    /\ returned.op = "Results"
          => /\ returned.ret.results = results
             /\ returned.ret.healthy =
                   (\A k \in DOMAIN returned.ret.results :
                        ~returned.ret.results[k].Error)

\* Results() returns unhealthy with "a" failing and "b" passing.
C3_Witness ==
    /\ returned.op = "Results"
    /\ DOMAIN returned.ret.results = {"a", "b"}
    /\ returned.ret.results["a"].Error
    /\ ~returned.ret.results["b"].Error
    /\ ~returned.ret.healthy

\* ---------------------------------------------------------------------- C4
\* The streak fields of a Result against a sequence of outcomes.
StreakMatches(r, outcomes) ==
    LET s == FailingSuffix(outcomes) IN
    /\ r.ContiguousFailures = Len(s)
    /\ r.TimeOfFirstFailure = IF s = << >> THEN 0 ELSE s[1].Timestamp

\* C4 as stated: after each execution, the streak fields of the stored Result
\* are those of the maximal failing suffix of the execution outcomes.
C4_StreakOfExecutions ==
    \A n \in DOMAIN results :
        IsExecution(history[n][Len(history[n])])
            => StreakMatches(results[n], SelectSeq(history[n], IsExecution))

\* C4 amended: the streak fields of the stored Result are those of the
\* maximal failing suffix of the Results stored under the name since its
\* entry was added, the initial Result of a registration included.
C4_StreakOfStoredResults ==
    \A n \in DOMAIN results : StreakMatches(results[n], history[n])

\* A streak of two failures that began after a passing Result.
C4_Witness ==
    \E n \in DOMAIN results :
        /\ results[n].ContiguousFailures = 2
        /\ Len(history[n]) = 3
        /\ IsExecution(history[n][3])
        /\ results[n].TimeOfFirstFailure < results[n].Timestamp

\* ---------------------------------------------------------------------- C5
\* C5: while the first execution of the check last registered under a name
\* has not completed, the Result stored under the name has the error of that
\* registration's initial Result (non-nil unless InitiallyPassing).
C5_InitialResultStands ==
    \A t \in TaskIds :
        LET n == tasks[t].name IN
        ( /\ FirstRound(t)
          /\ \A u \in TasksOf(n) : u <= t
          /\ \A c \in Registering : callers[c].cfg.name # n
          /\ n \in DOMAIN results
          /\ SelectSeq(history[n], IsInitial) # << >> )
        => LET inits == SelectSeq(history[n], IsInitial) IN
           results[n].Error = inits[Len(inits)].Error

\* ---------------------------------------------------------------------- C6
\* C6: RegisterCheck with a nil Check or an empty name returns an error and
\* changes nothing: no map entry, no hook, no goroutine; and no registration
\* under an empty name is ever in progress or stored.
C6_MisconfiguredIsRejected ==
    /\ [][(returned'.op = "RegisterCheck" /\ returned'.ret = "error")
             => /\ UNCHANGED <<results, checkTasks, rlock, tasks, callers, nTasks,
                               history>>
                /\ hooks' = NoHooks]_vars
    /\ [](/\ returned.op = "RegisterCheck" /\ returned.name = ""
             => returned.ret = "error"
          /\ "" \notin DOMAIN results \cup DOMAIN checkTasks
          /\ TasksOf("") = {}
          /\ \A c \in Registering :
                callers[c].cfg.check /\ callers[c].cfg.name # "")

\* A misconfigured registration is rejected while a check is registered.
C6_Witness ==
    /\ returned.op = "RegisterCheck"
    /\ returned.ret = "error"
    /\ DOMAIN results # {}
    /\ DOMAIN checkTasks # {}

\* ---------------------------------------------------------------------- C7
\* A goroutine that no Deregister or DeregisterAll can reach: it runs, no
\* stop is pending for it and the map entry of its name is not its own.
Orphan(t) ==
    /\ tasks[t].pc \notin {"none", "stopping", "stopped"}
    /\ tasks[t].stopChan = 0
    /\ \/ tasks[t].name \notin DOMAIN checkTasks
       \/ checkTasks[tasks[t].name].stopChan # t

DeregisterAllCalled ==
    \/ \E c \in Callers : callers[c].op = "DeregisterAll"
    \/ returned.op = "DeregisterAll"

AllStopped ==
    /\ \A t \in TaskIds : tasks[t].pc \in {"none", "stopped"}
    /\ results = EmptyMap
    /\ allHealthy(results)

\* C7: after DeregisterAll is called, unless an execution hangs, a
\* registration is made or in progress, or a goroutine has lost its map
\* entry, the system reaches a state where every goroutine has stopped,
\* results is empty and IsHealthy is true.
C7_DeregisterAllStopsEverything ==
    [](DeregisterAllCalled
          => <>(\/ AllStopped
                \/ \E t \in TaskIds : tasks[t].pc = "hung" \/ Orphan(t)
                \/ Registering # {}))

\* ---------------------------------------------------------------------- C8
\* C8: at most one execution of the check registered under a name is in
\* progress at any time.
C8_OneExecutionPerName ==
    \A n \in Names :
        Cardinality({t \in TasksOf(n) : tasks[t].pc \in {"execute", "hung"}}) <= 1

\* ---------------------------------------------------------------------- C9
\* C9: a check whose execution never returns blocks no other check: no
\* goroutine of another check waits for the lock to commit its Result while
\* the lock is held by a caller blocked on the stopChan of the hung check
\* (which is never drained).
C9_HungCheckBlocksOnlyItself ==
    \A c \in Callers :
        (callers[c].pc = "send" /\ tasks[callers[c].target].pc = "hung")
            => \A t \in TaskIds :
                   tasks[t].name # tasks[callers[c].target].name
                       => tasks[t].pc # "update"

Consistent(r) ==
    /\ (r.ContiguousFailures > 0) = r.Error
    /\ r.Error = (r.TimeOfFirstFailure # 0)

\* C11: every Result stored in results, and every Result handed to a
\* listener as it is stored, has contiguousFailures > 0 exactly when its
\* error is non-nil, exactly when its timeOfFirstFailure is non-nil.
C11_FailureFieldsAgree ==
    /\ \A n \in DOMAIN results : Consistent(results[n])
    /\ \A i \in 1..Len(hooks) :
           hooks[i].hook \in {"OnCheckRegistered", "OnCheckCompleted"}
               => Consistent(hooks[i].arg)

\* A passing Result stored over a failing one: the streak is reset.
C11_Witness ==
    \E n \in DOMAIN results :
        /\ Len(history[n]) >= 2
        /\ history[n][Len(history[n]) - 1].Error
        /\ ~results[n].Error
        /\ results[n].ContiguousFailures = 0
        /\ results[n].TimeOfFirstFailure = 0

\* --------------------------------------------------------------------- C12
\* The step a goroutine takes from one position to another.
CallerMoves(c, from, to) == callers[c].pc = from /\ callers'[c].pc = to
TaskMoves(t, from, to) == tasks[t].pc = from /\ tasks'[t].pc = to

\* Each hook is invoked only by the step it belongs to.
HookInItsStep(h) ==
    /\ h.hook = "OnCheckRegistered"
          => \E c \in Callers : /\ CallerMoves(c, "regUpdate", "regListener")
                                /\ callers[c].cfg.name = h.name
    /\ h.hook = "OnCheckStarted"
          => \E t \in TaskIds : TaskMoves(t, "select", "execute") /\ tasks[t].name = h.name
    /\ h.hook = "OnCheckCompleted"
          => \E t \in TaskIds : TaskMoves(t, "update", "report") /\ tasks[t].name = h.name
    /\ h.hook = "OnResultsUpdated"
          => \E t \in TaskIds : TaskMoves(t, "report", "select")

StuckSend(c) ==
    /\ callers[c].pc = "send"
    /\ c \in rlock
    /\ tasks[callers[c].target].stopChan = 1
    /\ tasks[callers[c].target].pc \in {"update", "hung"}

\* C13: a caller blocked on a full stopChan holds the read lock, and once the
\* goroutine it addresses is in its execution's aftermath the state is
\* final: the caller stays blocked with the lock, the goroutine never drains
\* its stopChan, no writer gets the lock (the two maps are frozen), and while
\* the goroutine waits as a writer no call is admitted as a reader either:
\* only calls that hold the read lock already can still return.
C13_SecondStopDeadlocks ==
    /\ [](\A c \in Callers : callers[c].pc = "send" => c \in rlock)
    /\ [][\A c \in Callers :
            StuckSend(c)
               => /\ StuckSend(c)'
                  /\ callers'[c] = callers[c]
                  /\ UNCHANGED <<results, checkTasks, nTasks>>
                  /\ \A t \in TaskIds : tasks'[t].pc \notin {"report", "stopped"}
                                           \/ tasks'[t].pc = tasks[t].pc
                  /\ tasks[callers[c].target].pc = "update"
                        => /\ rlock' \subseteq rlock
                           /\ returned'.op \notin {"Results", "IsHealthy"}
                           /\ returned'.op = "Deregister"
                                 => \E d \in Callers : CallerMoves(d, "send", "idle")
                           /\ \A d \in Callers :
                                 callers[d].pc = "idle"
                                    => callers'[d].pc \in {"idle", "regUpdate"}]_vars

\* The deadlock with an execution that has terminated: the goroutine waits
\* for the write lock, the caller of the second request for its receive.
C13_Witness ==
    \E c \in Callers :
        /\ StuckSend(c)
        /\ tasks[callers[c].target].pc = "update"
        /\ \A t \in TaskIds : tasks[t].pc # "hung"

\* --------------------------------------------------------------------- C14
\* C14: RegisterCheck of a name that has a task in the map returns nil and
\* puts a new task under the name; the task it replaces is left as it is,
\* and if that task is running without a pending stop it is from then on a
\* goroutine that no Deregister or DeregisterAll reaches: such a goroutine
\* stays one in every later step (its stopChan stays empty, so it never
\* leaves its loop).
C14_ReplacedTaskRunsOn ==
    [][/\ \A c \in Callers, n \in Names, old \in TaskIds :
            ( /\ CallerMoves(c, "regCreate", "idle")
              /\ n = callers[c].cfg.name
              /\ n \in DOMAIN checkTasks
              /\ old = checkTasks[n].stopChan )
               => /\ returned' = Return("RegisterCheck", n, "nil")
                  /\ checkTasks'[n].stopChan # old
                  /\ tasks'[old] = tasks[old]
                  /\ (tasks[old].pc \notin {"stopping", "stopped"}
                         /\ tasks[old].stopChan = 0) => Orphan(old)'
       /\ \A t \in TaskIds : Orphan(t) => Orphan(t)']_vars

\* The replaced task has executed the check and stored its Result under the
\* name after the task that replaced it was deregistered and cleaned up.
C14_Witness ==
    \E u, v \in TaskIds :
        /\ u < v
        /\ tasks[u].name = tasks[v].name
        /\ Orphan(u)
        /\ tasks[u].pc = "report"
        /\ tasks[v].pc = "stopped"
        /\ tasks[u].name \in DOMAIN results
        /\ tasks[u].name \notin DOMAIN checkTasks

\* --------------------------------------------------------------------- C15
\* C15: whenever another goroutine can take the read lock (a Results,
\* Deregister or DeregisterAll call can look at the maps), results and
\* checkTasks have the same keys.
C15_SameKeysForReaders ==
    CanRLock => DOMAIN results = DOMAIN checkTasks

\* C15 amended: a name is removed from results and checkTasks together, by
\* the cleanup of a goroutine of that name, but it is added to them apart:
\* to results by updateResult (at registration, or when an execution stores
\* its Result), to checkTasks by createCheckTask, in a later critical section
\* of the registration.
C15_AddedApartRemovedTogether ==
    [][\A n \in Names :
          /\ (n \in DOMAIN checkTasks' /\ n \notin DOMAIN checkTasks)
                => /\ results' = results
                   /\ \E c \in Callers : /\ CallerMoves(c, "regCreate", "idle")
                                         /\ callers[c].cfg.name = n
          /\ (n \in DOMAIN results' /\ n \notin DOMAIN results)
                => /\ checkTasks' = checkTasks
                   /\ \/ \E c \in Callers :
                            /\ CallerMoves(c, "regUpdate", "regListener")
                            /\ callers[c].cfg.name = n
                      \/ \E t \in TaskIds :
                            TaskMoves(t, "update", "report") /\ tasks[t].name = n
          /\ (\/ n \in DOMAIN results /\ n \notin DOMAIN results'
              \/ n \in DOMAIN checkTasks /\ n \notin DOMAIN checkTasks')
                => /\ n \notin DOMAIN results' \cup DOMAIN checkTasks'
                   /\ \E t \in TaskIds :
                         TaskMoves(t, "stopping", "stopped") /\ tasks[t].name = n]_vars

\* A Results() call returns a name that has no task in the map, while the
\* listener of the name's registration runs.
C15_Witness ==
    /\ returned.op = "Results"
    /\ \E c \in Callers :
          /\ callers[c].pc = "regListener"
          /\ callers[c].cfg.name \in DOMAIN returned.ret.results
          /\ callers[c].cfg.name \notin DOMAIN checkTasks

\* --------------------------------------------------------------------- C16
\* C16: once a goroutine has stopped, the ticker it created (if it completed
\* its initial execution) is not running any more.
C16_TickerReleased ==
    \A t \in TaskIds : tasks[t].pc = "stopped" => tasks[t].ticker # "running"

\* --------------------------------------------------------------------- C17
\* C17: at every position between two steps of a check goroutine (waiting in
\* its select for the timer or the stop, executing the check, waiting for the
\* lock, or with a listener hook of its last step being invoked) the
\* goroutine holds the lock neither shared nor exclusive; only callers are
\* among the readers that keep the lock from one step to the next.
C17_TasksHoldNoLockBetweenSteps ==
    /\ \A t \in TaskIds : tasks[t].lock = "none"
    /\ rlock \subseteq {c \in Callers : callers[c].pc \in {"send", "range"}}

\* OnCheckCompleted is being invoked after the commit while a registration
\* waits for the write lock, which is free.
C17_Witness ==
    /\ Len(hooks) = 1
    /\ hooks[1].hook = "OnCheckCompleted"
    /\ CanLock
    /\ \E c \in Callers : callers[c].pc = "regUpdate"

\* --------------------------------------------------------------------- C18
\* A step of a Deregister or DeregisterAll call: the call is made, goes on,
\* or returns.
DeregisterStep ==
    \/ returned'.op \in {"Deregister", "DeregisterAll"}
    \/ \E c \in Callers :
          /\ callers'[c] # callers[c]
          /\ {callers[c].op, callers'[c].op} \cap {"Deregister", "DeregisterAll"} # {}

\* The tasks that have a value in checkTasks.
Mapped == {checkTasks[n].stopChan : n \in DOMAIN checkTasks}

\* C18: a step of Deregister or DeregisterAll changes neither results nor
\* checkTasks and invokes no hook; of the goroutines it changes at most the
\* stopChan of one that is in the map, which it fills; Deregister of a name
\* with a task fills the stopChan of that task; Deregister of a name without
\* a task changes nothing.
C18_DeregisterOnlySendsStops ==
    [][DeregisterStep
         => /\ UNCHANGED <<results, checkTasks, history, nTasks, now>>
            /\ hooks' = NoHooks
            /\ \A t \in TaskIds :
                  tasks'[t] # tasks[t]
                     => /\ t \in Mapped
                        /\ tasks[t].stopChan = 0
                        /\ tasks'[t] = [tasks[t] EXCEPT !.stopChan = 1]
                        /\ \A u \in TaskIds \ {t} : tasks'[u] = tasks[u]
            /\ \A n \in Names :
                  returned' = Return("Deregister", n, "none")
                     => IF n \in DOMAIN checkTasks
                        THEN tasks'[checkTasks[n].stopChan].stopChan = 1
                        ELSE UNCHANGED <<tasks, callers, rlock>>]_vars

\* Deregister has returned and the name is still in both maps, with the stop
\* request waiting in the task's stopChan.
C18_Witness ==
    /\ returned.op = "Deregister"
    /\ returned.name \in DOMAIN results \cap DOMAIN checkTasks
    /\ tasks[checkTasks[returned.name].stopChan].stopChan = 1
    /\ tasks[checkTasks[returned.name].stopChan].pc = "execute"

\* --------------------------------------------------------------------- C19
\* C19: the task of the latest registration of a name, while it runs and no
\* stop request has been sent to it, is the task the map holds under the
\* name, and the name has a Result: the cleanup of an earlier task of the
\* name does not remove them.
C19_CleanupSparesNewRegistration ==
    \A v \in TaskIds :
        LET n == tasks[v].name IN
        ( /\ tasks[v].pc \notin {"none", "stopping", "stopped"}
          /\ tasks[v].stopChan = 0
          /\ \A u \in TasksOf(n) : u <= v
          /\ \A c \in Registering : callers[c].cfg.name # n )
        => /\ n \in DOMAIN results
           /\ n \in DOMAIN checkTasks
           /\ checkTasks[n].stopChan = v

\* --------------------------------------------------------------------- C20
\* A stop request waits in the stopChan of a goroutine that has not stopped.
StopSent(t) == tasks[t].stopChan = 1 /\ tasks[t].pc \notin {"none", "stopped"}

\* The goroutine has stopped and its name is in neither map.
Gone(t) ==
    /\ tasks[t].pc = "stopped"
    /\ tasks[t].name \notin DOMAIN results \cup DOMAIN checkTasks

\* C20: with clients that register every name once and send every check one
\* stop request at most, and executions that terminate (OrderlySpec), every
\* goroutine that was sent a stop request stops with its name removed from
\* both maps for good, every call in progress returns, and the read lock is
\* granted again and again (Results, IsHealthy, Deregister and DeregisterAll
\* are not kept waiting).
C20_NoDeadlockWithSingleStops ==
    /\ \A t \in TaskIds : StopSent(t) ~> []Gone(t)
    /\ \A c \in Callers : (callers[c].pc # "idle") ~> (callers[c].pc = "idle")
    /\ []<>CanRLock

\* Two checks of different names were sent one stop request each and have
\* stopped; both maps are empty and no caller is inside a call.
C20_Witness ==
    /\ \A t \in TaskIds : Gone(t) /\ tasks[t].stopChan = 0
    /\ \A t, u \in TaskIds : t # u => tasks[t].name # tasks[u].name
    /\ results = EmptyMap /\ checkTasks = EmptyMap
    /\ \A c \in Callers : callers[c].pc = "idle"
    /\ returned.op = "none"

====
